---------------------------- MODULE Spec2Model ----------------------------
(***************************************************************************)
(* Model of vim_enhancement_tool.py (VimPythonAnalyzer and the CLI main)   *)
(* and vim_plugin_interface.py (the Vim host adapter).                     *)
(*                                                                         *)
(* Python values: an optional value is None (the empty tuple) or Some(v).  *)
(* A string that the program inspects or builds (a path, an f-string) is a *)
(* tuple of pieces.  A parsed module is a preorder sequence of statement   *)
(* nodes; node i sits on source line i and its depth field gives the       *)
(* nesting (1 = top level).  The body of a function, class or if statement *)
(* opens with a simple statement (a string literal, which is then its      *)
(* docstring, or pass) that is no node of the sequence: no query reads it  *)
(* except through ast.get_docstring.  The Analyzer's error list lives in   *)
(* heap, so that sharing between the Analyzer and its caller is visible.   *)
(***************************************************************************)
EXTENDS Integers, Sequences, FiniteSets, TLC

\* Largest number of statement nodes in a parsed module.
MaxNodes == 3

None == <<>>
Some(v) == <<v>>

-----------------------------------------------------------------------------
(* The syntax tree produced by ast.parse                                   *)

FunctionKinds == {"FunctionDef", "AsyncFunctionDef"}

\* Statement kinds whose body holds further statements.
ContainerKinds == FunctionKinds \cup {"ClassDef", "If"}

NoAnnotation == [shape |-> "None", id |-> "", value |-> None]

Blank == [kind |-> "", name |-> "", docstring |-> None, args |-> <<>>,
          returns |-> NoAnnotation, module |-> None, names |-> <<>>]

\* The statements a source file is built from: one per node kind the
\* analyzer dispatches on, and the if statement as the kind it passes by.
Statements ==
  { [Blank EXCEPT !.kind = "FunctionDef", !.name = "f",
                  !.docstring = Some("doc"), !.args = <<"self", "x">>,
                  !.returns = [shape |-> "Name", id |-> "int", value |-> None]],
    [Blank EXCEPT !.kind = "AsyncFunctionDef", !.name = "_g",
                  !.args = <<"y">>,
                  !.returns = [shape |-> "Subscript", id |-> "List", value |-> None]],
    [Blank EXCEPT !.kind = "ClassDef", !.name = "C", !.docstring = Some("doc")],
    [Blank EXCEPT !.kind = "Import",
                  !.names = << [name |-> "os.path", asname |-> Some("p")],
                               [name |-> "sys", asname |-> None] >>],
    [Blank EXCEPT !.kind = "ImportFrom", !.module = Some("collections"),
                  !.names = << [name |-> "OrderedDict", asname |-> None],
                               [name |-> "defaultdict", asname |-> None] >>],
    [Blank EXCEPT !.kind = "If"] }

\* The depths the parser can give the statement that follows prefix p: the
\* first statement is at top level, and a statement is nested one deeper
\* only inside the body of a container.
NextDepths(p) ==
  IF p = <<>> THEN {1}
  ELSE LET last == p[Len(p)]
       IN 1..(IF last.stmt.kind \in ContainerKinds THEN last.depth + 1 ELSE last.depth)

RECURSIVE BodiesOfLen(_)
BodiesOfLen(n) ==
  IF n = 0 THEN {<<>>}
  ELSE UNION { { Append(p, [stmt |-> s, depth |-> d, lineno |-> n]) :
                   s \in Statements, d \in NextDepths(p) } :
               p \in BodiesOfLen(n - 1) }

\* Every module body of at most MaxNodes statements.
Bodies == UNION { BodiesOfLen(n) : n \in 0..MaxNodes }

\* Index of the node whose body holds node i; 0 is the Module itself.
Parent(body, i) ==
  IF body[i].depth = 1 THEN 0
  ELSE CHOOSE j \in 1..(i - 1) :
         /\ body[j].depth = body[i].depth - 1
         /\ \A k \in (j + 1)..(i - 1) : body[k].depth >= body[i].depth

RECURSIVE SelectIndices(_, _, _)
SelectIndices(body, p, i) ==
  IF i > Len(body) THEN <<>>
  ELSE (IF Parent(body, i) = p THEN <<i>> ELSE <<>>) \o SelectIndices(body, p, i + 1)

\* node.body of node p (tree.body for p = 0), in source order.
ChildNodes(body, p) == SelectIndices(body, p, 1)

\* ast.walk: breadth-first from the Module; the Module itself (index 0) is
\* yielded first and is no statement, so it is left out of the result.
RECURSIVE WalkFrom(_, _)
WalkFrom(body, todo) ==
  IF todo = <<>> THEN <<>>
  ELSE LET node == Head(todo)
           rest == Tail(todo) \o ChildNodes(body, node)
       IN (IF node = 0 THEN <<>> ELSE <<node>>) \o WalkFrom(body, rest)

\* A loop over tree.body where ast.walk(tree) was meant.
WalkTopLevelOnly(body) == ChildNodes(body, 0)

Walk(body) == WalkFrom(body, <<0>>)

-----------------------------------------------------------------------------
(* Inputs: paths, the file on disk, the editor, the command line           *)

PyPath == <<"a", ".py">>
TxtPath == <<"b", ".txt">>

\* str.endswith on a string given by its pieces.
EndsWith(s, suffix) == Len(s) >= 1 /\ s[Len(s)] = suffix

NoFile == [kind |-> "", syntax |-> "", body |-> <<>>, error |-> "", lineno |-> 0,
           msg |-> ""]

\* What file_path can name on disk: nothing, a directory, bytes that are not
\* UTF-8, or text; text parses to a module, is rejected at a line, or holds
\* a null byte.
Files ==
  { [NoFile EXCEPT !.kind = "missing"],
    [NoFile EXCEPT !.kind = "directory"],
    [NoFile EXCEPT !.kind = "undecodable"],
    [NoFile EXCEPT !.kind = "text", !.syntax = "nullbyte"],
    [NoFile EXCEPT !.kind = "text", !.syntax = "invalid", !.error = "SyntaxError",
                   !.lineno = 1, !.msg = "invalid syntax"],
    [NoFile EXCEPT !.kind = "text", !.syntax = "invalid", !.error = "IndentationError",
                   !.lineno = 2, !.msg = "unexpected indent"] }
  \cup { [NoFile EXCEPT !.kind = "text", !.syntax = "valid", !.body = b] : b \in Bodies }

\* The Python builds that differ on a file: a build either reports a null
\* byte in the source as a SyntaxError or raises ValueError for it.
Builds(file) == IF file.syntax = "nullbyte" THEN BOOLEAN ELSE {TRUE}

\* os.path.exists
Exists(file) == file.kind # "missing"

\* sys.argv: the program name, then the arguments.
Argvs == { <<"prog">>, <<"prog", PyPath>>, <<"prog", TxtPath>>, <<"prog", PyPath, TxtPath>> }

\* vim.current.buffer.name, when the vim module can be imported.
BufferNames == { None, Some(<<>>), Some(PyPath), Some(TxtPath) }

-----------------------------------------------------------------------------
(* VimPythonAnalyzer                                                       *)

\* The filename ast.parse gives a SyntaxError when called with the source
\* text alone.
UnknownFilename == <<"<unknown>">>

\* The outcome of open(file_path).read() followed by ast.parse(content):
\* a tree, or the exception raised.  A null byte in the source is a
\* SyntaxError without location on a build where nullIsSyntaxError, and a
\* ValueError otherwise.
ReadAndParse(file, nullIsSyntaxError) ==
  CASE file.kind = "missing" ->
         [raised |-> "FileNotFoundError", str |-> "No such file or directory"]
    [] file.kind = "directory" ->
         [raised |-> "IsADirectoryError", str |-> "Is a directory"]
    [] file.kind = "undecodable" ->
         [raised |-> "UnicodeDecodeError", str |-> "codec can't decode"]
    [] file.kind = "text" /\ file.syntax = "valid" ->
         [raised |-> "", tree |-> Some([body |-> file.body])]
    [] file.kind = "text" /\ file.syntax = "invalid" ->
         [raised |-> file.error, lineno |-> Some(file.lineno), msg |-> file.msg,
          filename |-> Some(UnknownFilename)]
    [] file.kind = "text" /\ file.syntax = "nullbyte" ->
         IF nullIsSyntaxError
           THEN [raised |-> "SyntaxError", lineno |-> None,
                 msg |-> "source code string cannot contain null bytes",
                 filename |-> None]
           ELSE [raised |-> "ValueError",
                 str |-> "source code string cannot contain null bytes"]

\* Python's exception classes: whether an instance of cls is caught by
\* "except base".
IsInstance(cls, base) ==
  \/ cls = base
  \/ base = "SyntaxError" /\ cls = "IndentationError"
  \/ base = "Exception" /\ cls \in {"SyntaxError", "IndentationError", "ValueError",
                                    "UnicodeDecodeError", "FileNotFoundError",
                                    "IsADirectoryError"}

\* The error entry of the except SyntaxError clause.
SyntaxErrorEntry(e) ==
  [type |-> "SyntaxError", line |-> e.lineno, message |-> e.msg, filename |-> e.filename]

\* The error entry of the except Exception clause.
GenericErrorEntry(file_path, e) ==
  [type |-> "Error", line |-> Some(0), message |-> e.str, filename |-> Some(file_path)]

\* _parse_file with the except Exception clause left out.
ParseFileWithoutGenericClause(file_path, file, nullIsSyntaxError) ==
  LET r == ReadAndParse(file, nullIsSyntaxError) IN
  IF r.raised = "" THEN [tree |-> r.tree, errors |-> <<>>, raises |-> ""]
  ELSE IF IsInstance(r.raised, "SyntaxError")
    THEN [tree |-> None, errors |-> <<SyntaxErrorEntry(r)>>, raises |-> ""]
  ELSE [tree |-> None, errors |-> <<>>, raises |-> r.raised]

\* _parse_file: the tree, the entries appended to self.errors, and the
\* exception that leaves the method ("" when none does).
_parse_file(file_path, file, nullIsSyntaxError) ==
  LET r == ReadAndParse(file, nullIsSyntaxError) IN
  IF r.raised = "" THEN [tree |-> r.tree, errors |-> <<>>, raises |-> ""]
  ELSE IF IsInstance(r.raised, "SyntaxError")
    THEN [tree |-> None, errors |-> <<SyntaxErrorEntry(r)>>, raises |-> ""]
  ELSE IF IsInstance(r.raised, "Exception")
    THEN [tree |-> None, errors |-> <<GenericErrorEntry(file_path, r)>>, raises |-> ""]
  ELSE [tree |-> None, errors |-> <<>>, raises |-> r.raised]

\* __init__: the fields of the new object, and its error list.
VimPythonAnalyzer(file_path, file, nullIsSyntaxError) ==
  LET parsed == _parse_file(file_path, file, nullIsSyntaxError) IN
  [self |-> [file_path |-> file_path, tree |-> parsed.tree, warnings |-> <<>>],
   errors |-> parsed.errors, raises |-> parsed.raises]

\* [arg.arg for arg in node.args.args if arg.arg != 'self']
RECURSIVE ArgsWithoutSelf(_)
ArgsWithoutSelf(args) ==
  IF args = <<>> THEN <<>>
  ELSE (IF Head(args) # "self" THEN <<Head(args)>> ELSE <<>>)
       \o ArgsWithoutSelf(Tail(args))

\* str() of an annotation's constant value.
PyStr(value) == IF value = None THEN "None" ELSE value[1]

\* _get_return_annotation
_get_return_annotation(node) ==
  CASE node.returns.shape = "None" -> None
    [] node.returns.shape = "Name" -> Some(<<node.returns.id>>)
    [] node.returns.shape = "Constant" -> Some(<<PyStr(node.returns.value)>>)
    [] node.returns.shape = "Subscript" /\ node.returns.id # "" ->
         Some(<<node.returns.id, "[...]">>)
    [] OTHER -> None

\* str.startswith('_') of an identifier.
IsPrivateName(name) == name \in {"_g"}

\* _get_class_methods
RECURSIVE MethodsOf(_, _)
MethodsOf(body, items) ==
  IF items = <<>> THEN <<>>
  ELSE LET item == body[Head(items)] IN
       (IF item.stmt.kind \in FunctionKinds
          THEN << [name |-> item.stmt.name, line |-> item.lineno,
                   docstring |-> item.stmt.docstring,
                   is_private |-> IsPrivateName(item.stmt.name)] >>
          ELSE <<>>)
       \o MethodsOf(body, Tail(items))

_get_class_methods(body, class_node) == MethodsOf(body, ChildNodes(body, class_node))

FunctionEntry(type, node) ==
  [type |-> type, name |-> node.stmt.name, line |-> node.lineno,
   docstring |-> node.stmt.docstring, args |-> ArgsWithoutSelf(node.stmt.args),
   returns |-> _get_return_annotation(node.stmt)]

\* The loop of get_definitions over the nodes ast.walk yields.
RECURSIVE DefinitionsOver(_, _)
DefinitionsOver(body, nodes) ==
  IF nodes = <<>> THEN <<>>
  ELSE LET node == body[Head(nodes)] IN
       (CASE node.stmt.kind = "FunctionDef" -> <<FunctionEntry("function", node)>>
          [] node.stmt.kind = "AsyncFunctionDef" ->
               <<FunctionEntry("async_function", node)>>
          [] node.stmt.kind = "ClassDef" ->
               << [type |-> "class", name |-> node.stmt.name, line |-> node.lineno,
                   docstring |-> node.stmt.docstring,
                   methods |-> _get_class_methods(body, Head(nodes))] >>
          [] OTHER -> <<>>)
       \o DefinitionsOver(body, Tail(nodes))

\* get_syntax_errors: return self.errors, the list object itself and no copy.
get_syntax_errors == [ref |-> "self.errors", value |-> <<>>]

\* get_definitions answering a missing tree with an entry that says so.
GetDefinitionsReportingNoTree(self) ==
  IF self.tree = None
    THEN << [type |-> "error", name |-> "", line |-> 0, docstring |-> None] >>
  ELSE DefinitionsOver(self.tree[1].body, Walk(self.tree[1].body))

\* get_definitions
get_definitions(self) ==
  IF self.tree = None THEN <<>>
  ELSE DefinitionsOver(self.tree[1].body, Walk(self.tree[1].body))

RECURSIVE ImportEntries(_)
ImportEntries(names) ==
  IF names = <<>> THEN <<>>
  ELSE << [type |-> "import", module |-> Head(names).name,
           alias |-> Head(names).asname] >>
       \o ImportEntries(Tail(names))

\* {alias.name: alias.asname for alias in node.names}: a later entry of the
\* same name replaces an earlier one.
AliasDict(names) ==
  [n \in {names[i].name : i \in 1..Len(names)} |->
     LET last == CHOOSE i \in 1..Len(names) :
                   /\ names[i].name = n
                   /\ \A j \in (i + 1)..Len(names) : names[j].name # n
     IN names[last].asname]

\* The loop of get_imports over tree.body.
RECURSIVE ImportsOver(_, _)
ImportsOver(body, nodes) ==
  IF nodes = <<>> THEN <<>>
  ELSE LET node == body[Head(nodes)] IN
       (CASE node.stmt.kind = "Import" -> ImportEntries(node.stmt.names)
          [] node.stmt.kind = "ImportFrom" ->
               << [type |-> "from_import", module |-> node.stmt.module,
                   names |-> [i \in 1..Len(node.stmt.names) |-> node.stmt.names[i].name],
                   alias |-> AliasDict(node.stmt.names)] >>
          [] OTHER -> <<>>)
       \o ImportsOver(body, Tail(nodes))

\* get_imports looping over ast.walk(tree), as the other queries do.
GetImportsWalking(self) ==
  IF self.tree = None THEN <<>>
  ELSE ImportsOver(self.tree[1].body, Walk(self.tree[1].body))

\* get_imports
get_imports(self) ==
  IF self.tree = None THEN <<>>
  ELSE ImportsOver(self.tree[1].body, ChildNodes(self.tree[1].body, 0))

\* The loop of get_code_complexity over the nodes ast.walk yields.
RECURSIVE ComplexityOver(_, _, _)
ComplexityOver(body, nodes, complexity) ==
  IF nodes = <<>> THEN complexity
  ELSE LET kind == body[Head(nodes)].stmt.kind IN
       ComplexityOver(body, Tail(nodes),
         CASE kind \in FunctionKinds ->
                [complexity EXCEPT !.functions = complexity.functions + 1]
           [] kind = "ClassDef" ->
                [complexity EXCEPT !.classes = complexity.classes + 1]
           [] kind \in {"Import", "ImportFrom"} ->
                [complexity EXCEPT !.imports = complexity.imports + 1]
           [] OTHER -> complexity)

ZeroComplexity == [functions |-> 0, classes |-> 0, imports |-> 0]

\* get_code_complexity
get_code_complexity(self) ==
  IF self.tree = None THEN ZeroComplexity
  ELSE ComplexityOver(self.tree[1].body, Walk(self.tree[1].body), ZeroComplexity)

-----------------------------------------------------------------------------
(* vim_plugin_interface.py                                                 *)

\* The resolution with the command line asked before the editor.
ResolveCommandLineFirst(vimAvailable, bufferName, argv) ==
  IF Len(argv) > 1 THEN [found |-> TRUE, current_file |-> Some(argv[2])]
  ELSE IF vimAvailable THEN [found |-> TRUE, current_file |-> bufferName]
  ELSE [found |-> FALSE, current_file |-> None]

\* The try/except ImportError that opens both entry points: the buffer name
\* when the vim module is there, else the first command-line argument, else
\* nothing.
ResolveCurrentFile(vimAvailable, bufferName, argv) ==
  IF vimAvailable THEN [found |-> TRUE, current_file |-> bufferName]
  ELSE IF Len(argv) > 1 THEN [found |-> TRUE, current_file |-> Some(argv[2])]
  ELSE [found |-> FALSE, current_file |-> None]

\* not current_file or not current_file.endswith('.py')
NotPythonFile(current_file) ==
  \/ current_file = None
  \/ current_file[1] = <<>>
  \/ ~EndsWith(current_file[1], ".py")

\* str.title() of a definition's type.
Title(type) ==
  CASE type = "function" -> "Function"
    [] type = "async_function" -> "Async_Function"
    [] type = "class" -> "Class"

\* The quickfix loop without its inner loop over the methods.
QuickfixWithoutMethods(current_file, definition, methods) == <<>>

RECURSIVE QuickfixMethods(_, _, _)
QuickfixMethods(current_file, definition, methods) ==
  IF methods = <<>> THEN <<>>
  ELSE << [filename |-> current_file, lnum |-> Head(methods).line,
           text |-> <<"Method: ", Head(methods).name, " in ", definition.name>>] >>
       \o QuickfixMethods(current_file, definition, Tail(methods))

\* The loop that builds quickfix_list in get_definitions_for_vim.
RECURSIVE quickfix_list(_, _)
quickfix_list(current_file, definitions) ==
  IF definitions = <<>> THEN <<>>
  ELSE LET definition == Head(definitions) IN
       (IF definition.type = "class"
          THEN << [filename |-> current_file, lnum |-> definition.line,
                   text |-> <<"Class: ", definition.name>>] >>
               \o QuickfixMethods(current_file, definition, definition.methods)
          ELSE << [filename |-> current_file, lnum |-> definition.line,
                   text |-> <<Title(definition.type), ": ", definition.name>>] >>)
       \o quickfix_list(current_file, Tail(definitions))

-----------------------------------------------------------------------------
(* main() of vim_enhancement_tool.py: what it prints                       *)

RECURSIVE ErrorLines(_)
ErrorLines(errors) ==
  IF errors = <<>> THEN <<>>
  ELSE << [tag |-> "error", line |-> Head(errors).line,
           message |-> Head(errors).message] >>
       \o ErrorLines(Tail(errors))

RECURSIVE MethodLines(_)
MethodLines(methods) ==
  IF methods = <<>> THEN <<>>
  ELSE << [tag |-> "method", name |-> Head(methods).name,
           line |-> Head(methods).line] >>
       \o MethodLines(Tail(methods))

RECURSIVE DefinitionLines(_)
DefinitionLines(definitions) ==
  IF definitions = <<>> THEN <<>>
  ELSE LET definition == Head(definitions) IN
       (IF definition.type = "class"
          THEN << [tag |-> "class", name |-> definition.name,
                   line |-> definition.line] >>
               \o MethodLines(definition.methods)
          ELSE << [tag |-> "definition", kind |-> Title(definition.type),
                   name |-> definition.name, args |-> definition.args,
                   line |-> definition.line] >>)
       \o DefinitionLines(Tail(definitions))

RECURSIVE ImportLines(_)
ImportLines(imports) ==
  IF imports = <<>> THEN <<>>
  ELSE LET imp == Head(imports) IN
       (IF imp.type = "import"
          THEN IF imp.alias # None /\ imp.alias # Some("")
                 THEN << [tag |-> "import_as", module |-> imp.module,
                          alias |-> imp.alias] >>
                 ELSE << [tag |-> "import", module |-> imp.module] >>
          ELSE << [tag |-> "from_import", module |-> imp.module,
                   names |-> imp.names] >>)
       \o ImportLines(Tail(imports))

\* main without the return that ends the "if errors:" block.
ReportWithoutReturn(self, errors) ==
  (IF errors # <<>> THEN << [tag |-> "Syntax Errors:"] >> \o ErrorLines(errors)
   ELSE <<>>)
  \o << [tag |-> "Definitions:"] >> \o DefinitionLines(get_definitions(self))
  \o << [tag |-> "Imports:"] >> \o ImportLines(get_imports(self))
  \o << [tag |-> "Complexity:", complexity |-> get_code_complexity(self)] >>

\* Everything main prints once the Analyzer is built, given its error list.
Report(self, errors) ==
  IF errors # <<>>
    THEN << [tag |-> "Syntax Errors:"] >> \o ErrorLines(errors)
    ELSE << [tag |-> "Definitions:"] >> \o DefinitionLines(get_definitions(self))
         \o << [tag |-> "Imports:"] >> \o ImportLines(get_imports(self))
         \o << [tag |-> "Complexity:", complexity |-> get_code_complexity(self)] >>

-----------------------------------------------------------------------------
(* The state machine                                                       *)

VARIABLES
  mode,          \* which entry point runs: a caller of the class, main(), or
                 \* one of the two functions of vim_plugin_interface.py
  vimAvailable,  \* whether import vim succeeds
  bufferName,    \* vim.current.buffer.name
  argv,          \* sys.argv
  pc,            \* "start", "ready" (an Analyzer is in the caller's hands),
                 \* "done", or "raised" (an exception left the entry point)
  input,         \* what the entry point found on disk at the path (None
                 \* before it looked)
  analyzer,      \* the Analyzer object's fields (None before construction)
  errors,        \* the list object self.errors refers to
  returned,      \* per query method called so far, what its last call handed
                 \* the caller: self.errors itself, or a new object and its value
  first,         \* per query method called so far, the value its first call
                 \* returned
  stdout,        \* the lines printed
  exitStatus     \* the process's exit status once main() has ended

vars == <<mode, vimAvailable, bufferName, argv, pc, input, analyzer, errors,
          returned, first, stdout, exitStatus>>

Modes == {"library", "main", "analyze_current_file", "get_definitions_for_vim"}

Methods == {"get_syntax_errors", "get_definitions", "get_imports", "get_code_complexity"}

Init ==
  /\ mode \in Modes
  /\ vimAvailable \in BOOLEAN
  /\ bufferName \in BufferNames
  /\ argv \in Argvs
  \* the inputs an entry point never reads are held at one value
  /\ mode \in {"library", "main"} => ~vimAvailable
  /\ ~vimAvailable => bufferName = None
  /\ mode = "library" => argv = <<"prog">>
  /\ mode # "main" => Len(argv) <= 2
  /\ vimAvailable => argv = <<"prog", PyPath>>
  /\ pc = "start"
  /\ input = None
  /\ analyzer = None
  /\ errors = <<>>
  /\ returned = <<>>
  /\ first = <<>>
  /\ stdout = <<>>
  /\ exitStatus = None

\* The object a call handed out, as the caller sees it now.
Deref(r) == IF r.ref = "self.errors" THEN errors ELSE r.value

\* The constructor call VimPythonAnalyzer(file_path) inside an entry point:
\* the caller holds the new object, unless an exception left the constructor.
Constructs(new, file, nullIsSyntaxError) ==
  /\ input' = Some([file |-> file, nullIsSyntaxError |-> nullIsSyntaxError])
  /\ IF new.raises = ""
       THEN analyzer' = Some(new.self) /\ errors' = new.errors
       ELSE UNCHANGED <<analyzer, errors>>

\* VimPythonAnalyzer(file_path), called directly.
Construct ==
  /\ mode = "library" /\ pc = "start"
  /\ \E file \in Files : \E nullIsSyntaxError \in Builds(file) :
       LET new == VimPythonAnalyzer(PyPath, file, nullIsSyntaxError) IN
       /\ Constructs(new, file, nullIsSyntaxError)
       /\ pc' = IF new.raises = "" THEN "ready" ELSE "raised"
  /\ UNCHANGED <<mode, vimAvailable, bufferName, argv, returned, first, stdout,
                 exitStatus>>

\* The caller binds the method's return value; the value of the method's
\* first call is noted.
Return(method, r) ==
  /\ returned' = [m \in DOMAIN returned \cup {method} |->
                    IF m = method THEN r ELSE returned[m]]
  /\ first' = [m \in DOMAIN first \cup {method} |->
                 IF m \in DOMAIN first THEN first[m] ELSE Deref(r)]

\* get_syntax_errors() handing the entries over and starting a new list
\* (errors, self.errors = self.errors, []).
CallGetSyntaxErrorsDraining ==
  /\ mode = "library" /\ pc = "ready"
  /\ Return("get_syntax_errors", [ref |-> "new", value |-> errors])
  /\ errors' = <<>>
  /\ UNCHANGED <<mode, vimAvailable, bufferName, argv, pc, input, analyzer,
                 stdout, exitStatus>>

\* A call of get_syntax_errors().
CallGetSyntaxErrors ==
  /\ mode = "library" /\ pc = "ready"
  /\ Return("get_syntax_errors", get_syntax_errors)
  /\ UNCHANGED <<mode, vimAvailable, bufferName, argv, pc, input, analyzer, errors,
                 stdout, exitStatus>>

CallGetDefinitions ==
  /\ mode = "library" /\ pc = "ready"
  /\ Return("get_definitions", [ref |-> "new", value |-> get_definitions(analyzer[1])])
  /\ UNCHANGED <<mode, vimAvailable, bufferName, argv, pc, input, analyzer, errors,
                 stdout, exitStatus>>

CallGetImports ==
  /\ mode = "library" /\ pc = "ready"
  /\ Return("get_imports", [ref |-> "new", value |-> get_imports(analyzer[1])])
  /\ UNCHANGED <<mode, vimAvailable, bufferName, argv, pc, input, analyzer, errors,
                 stdout, exitStatus>>

CallGetCodeComplexity ==
  /\ mode = "library" /\ pc = "ready"
  /\ Return("get_code_complexity",
            [ref |-> "new", value |-> get_code_complexity(analyzer[1])])
  /\ UNCHANGED <<mode, vimAvailable, bufferName, argv, pc, input, analyzer, errors,
                 stdout, exitStatus>>

\* The caller empties a list it was handed (result.clear()).
CallerClearsResult ==
  /\ mode = "library" /\ pc = "ready"
  /\ \E m \in DOMAIN returned \ {"get_code_complexity"} :
       /\ Deref(returned[m]) # <<>>
       /\ IF returned[m].ref = "self.errors"
            THEN errors' = <<>> /\ UNCHANGED returned
            ELSE returned' = [returned EXCEPT ![m].value = <<>>] /\ UNCHANGED errors
  /\ UNCHANGED <<mode, vimAvailable, bufferName, argv, pc, input, analyzer, first,
                 stdout, exitStatus>>

\* analyze_current_file()
analyze_current_file ==
  /\ mode = "analyze_current_file" /\ pc = "start"
  /\ LET r == ResolveCurrentFile(vimAvailable, bufferName, argv) IN
     IF ~r.found
       THEN /\ stdout' = << [tag |-> "No file specified"] >>
            /\ pc' = "done"
            /\ UNCHANGED <<input, analyzer, errors>>
     ELSE IF NotPythonFile(r.current_file)
       THEN /\ stdout' = << [tag |-> "Not a Python file"] >>
            /\ pc' = "done"
            /\ UNCHANGED <<input, analyzer, errors>>
     ELSE \E file \in Files : \E nullIsSyntaxError \in Builds(file) :
            LET new == VimPythonAnalyzer(r.current_file[1], file, nullIsSyntaxError) IN
            /\ Constructs(new, file, nullIsSyntaxError)
            /\ IF new.raises # ""
                 THEN pc' = "raised" /\ UNCHANGED stdout
                 ELSE /\ pc' = "done"
                      /\ stdout' =
                           << [tag |-> "json", indent |-> 2,
                               value |-> [file |-> r.current_file[1],
                                          errors |-> new.errors,
                                          definitions |-> get_definitions(new.self),
                                          imports |-> get_imports(new.self),
                                          complexity |-> get_code_complexity(new.self)]] >>
  /\ UNCHANGED <<mode, vimAvailable, bufferName, argv, returned, first, exitStatus>>

\* get_definitions_for_vim()
get_definitions_for_vim ==
  /\ mode = "get_definitions_for_vim" /\ pc = "start"
  /\ LET r == ResolveCurrentFile(vimAvailable, bufferName, argv) IN
     IF ~r.found
       THEN /\ stdout' = << [tag |-> "No file specified"] >>
            /\ pc' = "done"
            /\ UNCHANGED <<input, analyzer, errors>>
     ELSE IF NotPythonFile(r.current_file)
       THEN /\ stdout' = << [tag |-> "Not a Python file"] >>
            /\ pc' = "done"
            /\ UNCHANGED <<input, analyzer, errors>>
     ELSE \E file \in Files : \E nullIsSyntaxError \in Builds(file) :
            LET new == VimPythonAnalyzer(r.current_file[1], file, nullIsSyntaxError) IN
            /\ Constructs(new, file, nullIsSyntaxError)
            /\ IF new.raises # ""
                 THEN pc' = "raised" /\ UNCHANGED stdout
                 ELSE /\ pc' = "done"
                      /\ stdout' =
                           << [tag |-> "json", indent |-> 0,
                               value |-> quickfix_list(r.current_file[1],
                                                      get_definitions(new.self))] >>
  /\ UNCHANGED <<mode, vimAvailable, bufferName, argv, returned, first, exitStatus>>

\* main(); the exit status is 1 after sys.exit(1) or an uncaught exception,
\* and 0 when main returns.
main ==
  /\ mode = "main" /\ pc = "start"
  /\ IF Len(argv) # 2
       THEN /\ stdout' = << [tag |-> "Usage:"] >>
            /\ exitStatus' = Some(1)
            /\ pc' = "done"
            /\ UNCHANGED <<input, analyzer, errors>>
       ELSE \E file \in Files : \E nullIsSyntaxError \in Builds(file) :
              IF ~Exists(file)
                THEN /\ stdout' = << [tag |-> "Error: File does not exist",
                                      file_path |-> argv[2]] >>
                     /\ exitStatus' = Some(1)
                     /\ pc' = "done"
                     /\ input' = Some([file |-> file,
                                       nullIsSyntaxError |-> nullIsSyntaxError])
                     /\ UNCHANGED <<analyzer, errors>>
                ELSE LET new == VimPythonAnalyzer(argv[2], file, nullIsSyntaxError) IN
                     /\ Constructs(new, file, nullIsSyntaxError)
                     /\ IF new.raises # ""
                          THEN /\ pc' = "raised"
                               /\ exitStatus' = Some(1)
                               /\ UNCHANGED stdout
                          ELSE /\ pc' = "done"
                               /\ exitStatus' = Some(0)
                               /\ stdout' = Report(new.self, new.errors)
  /\ UNCHANGED <<mode, vimAvailable, bufferName, argv, returned, first>>

Query ==
  \/ CallGetSyntaxErrors
  \/ CallGetDefinitions
  \/ CallGetImports
  \/ CallGetCodeComplexity

Next ==
  \/ Construct
  \/ Query
  \/ analyze_current_file
  \/ get_definitions_for_vim
  \/ main

Spec == Init /\ [][Next]_vars

\* The same program with a caller that also modifies what it was handed.
NextShared == Next \/ CallerClearsResult

SpecShared == Init /\ [][NextShared]_vars

-----------------------------------------------------------------------------
(* Properties                                                              *)

\* The constructor has been called (main() looks at the disk before it
\* decides to call it).
ConstructorCalled == input # None /\ ~(mode = "main" /\ ~Exists(input[1].file))

\* What reading and parsing the file came to.
Outcome == ReadAndParse(input[1].file, input[1].nullIsSyntaxError)

TreeAbsent == analyzer # None /\ analyzer[1].tree = None

TreePresent == analyzer # None /\ analyzer[1].tree # None

TheBody == analyzer[1].tree[1].body

\* C1: construction never lets a failure out, and leaves either a tree and
\* an empty error list, or no tree and exactly one error entry: of type
\* SyntaxError when the parser rejected the text, and of type Error with
\* line 0 and filename = file_path after any other failure.
C1_ConstructionNeverFails ==
  /\ pc # "raised"
  /\ ConstructorCalled => analyzer # None
  /\ analyzer # None =>
       \/ /\ Outcome.raised = ""
          /\ analyzer[1].tree # None
          /\ errors = <<>>
       \/ /\ Outcome.raised # ""
          /\ analyzer[1].tree = None
          /\ Len(errors) = 1
          /\ IF IsInstance(Outcome.raised, "SyntaxError")
               THEN errors[1].type = "SyntaxError"
               ELSE /\ errors[1].type = "Error"
                    /\ errors[1].line = Some(0)
                    /\ errors[1].filename = Some(analyzer[1].file_path)

\* An Analyzer built on a file that could not be read.
C1_Witness ==
  /\ analyzer # None
  /\ input[1].file.kind = "undecodable"
  /\ analyzer[1].tree = None
  /\ Len(errors) = 1 /\ errors[1].type = "Error"

\* C2: with the tree absent, get_definitions() and get_imports() return
\* empty sequences and get_code_complexity() returns all zeros, after any
\* calls in any order, and in the document analyze_current_file() prints.
C2_QueriesDegrade ==
  TreeAbsent =>
    /\ \A m \in DOMAIN returned :
         /\ m \in {"get_definitions", "get_imports"} => Deref(returned[m]) = <<>>
         /\ m = "get_code_complexity" =>
              LET c == Deref(returned[m]) IN
              c.functions = 0 /\ c.classes = 0 /\ c.imports = 0
    /\ mode = "analyze_current_file" /\ pc = "done" =>
         /\ stdout[1].value.definitions = <<>>
         /\ stdout[1].value.imports = <<>>
         /\ stdout[1].value.complexity.functions = 0
         /\ stdout[1].value.complexity.classes = 0
         /\ stdout[1].value.complexity.imports = 0

\* Every query has been called on an Analyzer without a tree.
C2_Witness == TreeAbsent /\ DOMAIN returned = Methods

\* C3: after a SyntaxError the one recorded entry has filename = file_path,
\* line = the parser's line number (0 when it gave none) and message = the
\* parser's text.
C3_SyntaxErrorEntry ==
  analyzer # None /\ IsInstance(Outcome.raised, "SyntaxError") =>
    /\ Len(errors) = 1
    /\ errors[1].filename = Some(analyzer[1].file_path)
    /\ errors[1].line = (IF Outcome.lineno = None THEN Some(0) ELSE Outcome.lineno)
    /\ errors[1].message = Outcome.msg

\* The sum of f over the finite set S of integers.
RECURSIVE SumOver(_, _)
SumOver(S, f) ==
  IF S = {} THEN 0
  ELSE LET x == CHOOSE y \in S : TRUE IN f[x] + SumOver(S \ {x}, f)

\* The function and async-function definition nodes of a module body.
FunctionNodes(body) == { i \in 1..Len(body) : body[i].stmt.kind \in FunctionKinds }

\* The entries of kind function or async_function in a list of definitions.
FunctionEntries(defs) ==
  { k \in 1..Len(defs) : defs[k].type \in {"function", "async_function"} }

ClassEntries(defs) == { k \in 1..Len(defs) : defs[k].type = "class" }

\* The sum, over the class entries, of the length of their methods lists.
MethodTotal(defs) ==
  SumOver(ClassEntries(defs), [k \in ClassEntries(defs) |-> Len(defs[k].methods)])

BothCounted ==
  TreePresent /\ {"get_definitions", "get_code_complexity"} \subseteq DOMAIN returned

\* C4 as claimed: the function count is the number of function nodes in the
\* tree, and that number is the number of function entries of
\* get_definitions() plus the total length of the classes' methods lists.
C4_CountIsEntriesPlusMethods ==
  BothCounted =>
    LET defs == Deref(returned["get_definitions"])
        c == Deref(returned["get_code_complexity"])
    IN /\ c.functions = Cardinality(FunctionNodes(TheBody))
       /\ Cardinality(FunctionNodes(TheBody))
            = Cardinality(FunctionEntries(defs)) + MethodTotal(defs)

\* C4 amended: the function count is the number of function nodes in the
\* tree, and that number is the number of function entries of
\* get_definitions() alone; the methods lists hold again those function
\* nodes that sit directly in a class body.
C4_CountIsEntries ==
  BothCounted =>
    LET defs == Deref(returned["get_definitions"])
        c == Deref(returned["get_code_complexity"])
    IN /\ c.functions = Cardinality(FunctionNodes(TheBody))
       /\ Cardinality(FunctionNodes(TheBody)) = Cardinality(FunctionEntries(defs))
       /\ MethodTotal(defs)
            = Cardinality({ i \in FunctionNodes(TheBody) :
                              /\ Parent(TheBody, i) # 0
                              /\ TheBody[Parent(TheBody, i)].stmt.kind = "ClassDef" })

\* Both queries have answered for a class with a method and a function
\* nested in that method.
C4_Witness ==
  /\ BothCounted
  /\ Len(TheBody) = 3
  /\ TheBody[1].stmt.kind = "ClassDef"
  /\ TheBody[2].stmt.kind \in FunctionKinds /\ TheBody[2].depth = 2
  /\ TheBody[3].stmt.kind \in FunctionKinds /\ TheBody[3].depth = 3
  /\ Deref(returned["get_code_complexity"]).functions = 2

ImportKinds == {"Import", "ImportFrom"}

\* The import statements of a body that are top-level statements.
TopLevelImports(body) ==
  { i \in 1..Len(body) : body[i].depth = 1 /\ body[i].stmt.kind \in ImportKinds }

\* The records one top-level import statement stands for.
RecordsOf(body) ==
  [i \in TopLevelImports(body) |->
     IF body[i].stmt.kind = "Import" THEN Len(body[i].stmt.names) ELSE 1]

\* The records that stand for the top-level import statements before i.
RecordsBefore(body, i) ==
  SumOver({ j \in TopLevelImports(body) : j < i }, RecordsOf(body))

C6_QueriesChangeNothing ==
  /\ [](\A m \in DOMAIN returned : Deref(returned[m]) = first[m])
  /\ [][Query => UNCHANGED <<analyzer, errors>>]_vars

\* All four queries have answered for a module with two definitions and a
\* from-import.
C6_Witness ==
  /\ DOMAIN returned = Methods
  /\ TreePresent
  /\ Len(Deref(returned["get_definitions"])) = 2
  /\ Len(Deref(returned["get_imports"])) = 1

\* C7: every query hands out a list of its own, so that a caller emptying a
\* list it was handed leaves the Analyzer's error list as it was.
C7_ResultsNotShared ==
  [][CallerClearsResult => UNCHANGED <<analyzer, errors>>]_vars

HostMode == mode \in {"analyze_current_file", "get_definitions_for_vim"}

\* Neither an editor nor a command-line argument names a file.
NothingToResolve == ~vimAvailable /\ Len(argv) <= 1

\* The editor's buffer path first, else the command-line argument.
TargetPath == IF vimAvailable THEN bufferName ELSE Some(argv[2])

HasPyExtension(path) ==
  path # None /\ \E n \in 1..Len(path[1]) : n = Len(path[1]) /\ path[1][n] = ".py"

NoFileMessage == << [tag |-> "No file specified"] >>

WrongTypeMessage == << [tag |-> "Not a Python file"] >>

\* C8: in both entry points of the host adapter an Analyzer is built only
\* for the resolved path (the buffer's, else the command line's) and only
\* if it ends in .py; with nothing to resolve the output is the one line
\* "No file specified", with another kind of path the one line "Not a
\* Python file", and in both cases no Analyzer is built and no JSON printed.
C8_GateBeforeAnalyzer ==
  HostMode /\ pc # "start" =>
    /\ NothingToResolve => stdout = NoFileMessage /\ analyzer = None
    /\ ~NothingToResolve /\ ~HasPyExtension(TargetPath) =>
         stdout = WrongTypeMessage /\ analyzer = None
    /\ analyzer # None =>
         /\ ~NothingToResolve /\ HasPyExtension(TargetPath)
         /\ analyzer[1].file_path = TargetPath[1]
         /\ Len(stdout) = 1 /\ stdout[1].tag = "json"
    /\ analyzer = None => \A i \in 1..Len(stdout) : stdout[i].tag # "json"

\* The host adapter has analysed the editor's buffer.
C8_Witness ==
  /\ HostMode /\ pc = "done" /\ vimAvailable
  /\ analyzer # None /\ analyzer[1].file_path = PyPath
  /\ stdout[1].tag = "json"

DefinitionTags == {"class", "method", "definition"}

ImportTags == {"import", "import_as", "from_import"}

AnalysisTags ==
  {"Syntax Errors:", "error", "Definitions:", "Imports:", "Complexity:"}
  \cup DefinitionTags \cup ImportTags

\* C9: main() exits with status 1 and prints no analysis when it has not
\* exactly one argument or the path does not exist; otherwise, with a
\* non-empty error list it prints the errors and nothing after them;
\* otherwise it prints the definitions section, the imports section and the
\* complexity line, in that order, each once.
C9_MainOutput ==
  mode = "main" /\ pc # "start" =>
    IF Len(argv) # 2 \/ ~Exists(input[1].file)
      THEN /\ exitStatus = Some(1)
           /\ analyzer = None
           /\ \A k \in 1..Len(stdout) : stdout[k].tag \notin AnalysisTags
    ELSE IF errors # <<>>
      THEN /\ Len(stdout) = 1 + Len(errors)
           /\ stdout[1].tag = "Syntax Errors:"
           /\ \A k \in 2..Len(stdout) : stdout[k].tag = "error"
    ELSE \E i \in 2..(Len(stdout) - 1) :
           /\ stdout[1].tag = "Definitions:"
           /\ \A k \in 2..(i - 1) : stdout[k].tag \in DefinitionTags
           /\ stdout[i].tag = "Imports:"
           /\ \A k \in (i + 1)..(Len(stdout) - 1) : stdout[k].tag \in ImportTags
           /\ stdout[Len(stdout)].tag = "Complexity:"

\* main() has printed all three sections for a module with a definition
\* and an import.
C9_Witness ==
  /\ mode = "main" /\ pc = "done" /\ exitStatus = Some(0)
  /\ errors = <<>>
  /\ \E i \in 3..(Len(stdout) - 2) : stdout[i].tag = "Imports:"

\* Where the entry of definition k comes in the quickfix list: after the
\* entries of the definitions before it and of their methods.
QuickfixPlace(defs, k) ==
  k + SumOver({ j \in ClassEntries(defs) : j < k },
              [j \in ClassEntries(defs) |-> Len(defs[j].methods)])

\* C10: the list get_definitions_for_vim() prints holds, in the order of
\* get_definitions(), for each class one entry at the class's line followed
\* at once by one "Method: X in Y" entry per method at the method's line,
\* and for each function one entry with its kind and name; its length is
\* the number of definitions plus the number of class methods.
C10_QuickfixList ==
  mode = "get_definitions_for_vim" /\ pc = "done" /\ analyzer # None =>
    LET defs == get_definitions(analyzer[1])
        q == stdout[1].value
    IN /\ Len(q) = Len(defs) + MethodTotal(defs)
       /\ \A k \in 1..Len(defs) :
            LET at == QuickfixPlace(defs, k) IN
            /\ q[at].filename = analyzer[1].file_path
            /\ q[at].lnum = defs[k].line
            /\ IF defs[k].type = "class"
                 THEN /\ q[at].text = <<"Class: ", defs[k].name>>
                      /\ \A j \in 1..Len(defs[k].methods) :
                           /\ q[at + j].filename = analyzer[1].file_path
                           /\ q[at + j].lnum = defs[k].methods[j].line
                           /\ q[at + j].text = <<"Method: ", defs[k].methods[j].name,
                                                 " in ", defs[k].name>>
                 ELSE /\ q[at].text[1] = (IF defs[k].type = "function"
                                            THEN "Function" ELSE "Async_Function")
                      /\ q[at].text[3] = defs[k].name

\* The quickfix list of a class with two methods.
C10_Witness ==
  /\ mode = "get_definitions_for_vim" /\ pc = "done" /\ TreePresent
  /\ Len(TheBody) = 3
  /\ TheBody[1].stmt.kind = "ClassDef"
  /\ TheBody[2].stmt.kind = "FunctionDef" /\ TheBody[2].depth = 2
  /\ TheBody[3].stmt.kind = "AsyncFunctionDef" /\ TheBody[3].depth = 2
  /\ Len(stdout[1].value) = 5

=============================================================================
